---- MODULE Spec2Model ----
(***************************************************************************)
(* Model of og/workspace.py: the slug normaliser get_slug_from_name, the   *)
(* Issue / IssueBranch entities (branch naming, issue-number parsing, the  *)
(* memoised url) and the title lookup get_issue_name.                      *)
(*                                                                         *)
(* A Python str is a sequence of characters; a character is a one-element  *)
(* TLA+ string.  "sz" stands for U+00DF (LATIN SMALL LETTER SHARP S), "nl" *)
(* for the line feed U+000A.                                               *)
(***************************************************************************)
EXTENDS Integers, Sequences, FiniteSets, TLC

VARIABLES
    hashseed,     \* the process's str hash randomisation (PYTHONHASHSEED)
    title,        \* argument of the last get_slug_from_name call
    slug,         \* its return value
    slugCalled,   \* whether get_slug_from_name has been called
    brInput,      \* where a branch comes from: Issue.branch's arguments, or a name
    brPc,         \* "start", "branch" (an IssueBranch exists), "read"
    brName,       \* IssueBranch.name
    brParsed,     \* the value IssueBranch.issue_number returned
    issue,        \* an Issue instance: its fields number and remote
    urlCache,     \* the instance's __dict__ entry "url" that cached_property fills
    urlEvals,     \* how many times get_issue_url has been evaluated for the instance
    urlReads,     \* the values the reads of issue.url returned, in order
    fetch         \* the last Issue.fetch_name call and its outcome

slugVars == <<hashseed, title, slug, slugCalled>>
branchVars == <<brInput, brPc, brName, brParsed>>
issueVars == <<issue, urlCache, urlEvals, urlReads, fetch>>

vars == <<slugVars, branchVars, issueVars>>

----------------------------------------------------------------------------
(* Bounds of the model.                                                    *)

\* longest free-form title (any characters of TitleChars)
MaxTitleLen == 3
\* number of distinct words available to the word-list titles
VocabSize == 7
\* longest slug handed to Issue.branch
MaxSlugLen == 2
\* longest branch name an IssueBranch is constructed from directly
MaxNameLen == 6
\* number of reads of issue.url that are followed
MaxReads == 3

----------------------------------------------------------------------------
(* Characters.                                                             *)

LowerLetters == {"a", "b", "s"}
UpperLetters == {"A", "B", "S"}
AsciiLetters == LowerLetters \cup UpperLetters
Digits == {"0", "1", "2", "3", "4", "5", "6", "7", "8", "9"}
\* the four characters the specification calls separators
SepChars == {".", " ", "-", "_"}
\* ASCII characters: everything of the model's alphabet except U+00DF
AsciiChars == AsciiLetters \cup Digits \cup SepChars \cup {"/", "nl"}

\* str.lower(), one character
LowerChar(c) ==
    CASE c = "A" -> "a"
      [] c = "B" -> "b"
      [] c = "S" -> "s"
      [] OTHER -> c

\* str.upper(), one character: U+00DF upper-cases to the two letters "SS"
UpperChar(c) ==
    CASE c = "a" -> <<"A">>
      [] c = "b" -> <<"B">>
      [] c = "s" -> <<"S">>
      [] c = "sz" -> <<"S", "S">>
      [] OTHER -> <<c>>

RECURSIVE Upper(_)
Upper(s) == IF s = <<>> THEN <<>> ELSE UpperChar(Head(s)) \o Upper(Tail(s))

LowerIdentity(s) == s

\* name.lower()
Lower(s) == [i \in 1..Len(s) |-> LowerChar(s[i])]

----------------------------------------------------------------------------
(* The three patterns and their substitutions.                             *)

\* SEP_RE = re.compile(r"\. \-_"): the literal four-character sequence
SEP_RE == <<".", " ", "-", "_">>

\* whether the literal pattern p occurs in s at position 1
StartsWith(s, p) == Len(s) >= Len(p) /\ SubSeq(s, 1, Len(p)) = p

RECURSIVE SubSepDelete(_)
SubSepDelete(s) ==
    IF s = <<>> THEN <<>>
    ELSE IF StartsWith(s, SEP_RE)
         THEN SubSepDelete(SubSeq(s, Len(SEP_RE) + 1, Len(s)))
         ELSE <<Head(s)>> \o SubSepDelete(Tail(s))

\* SEP_RE.sub(" ", name): leftmost non-overlapping occurrences become one space
RECURSIVE SubSep(_)
SubSep(s) ==
    IF s = <<>> THEN <<>>
    ELSE IF StartsWith(s, SEP_RE)
         THEN <<" ">> \o SubSep(SubSeq(s, Len(SEP_RE) + 1, Len(s)))
         ELSE <<Head(s)>> \o SubSep(Tail(s))

SubTrashKeepDigits(s) ==
    [i \in 1..Len(s) |->
        IF s[i] \in AsciiLetters \cup {"-"} \cup Digits THEN s[i] ELSE " "]

\* TRASH_CHARS_RE.sub(" ", name) with TRASH_CHARS_RE = [^a-zA-Z\-]
SubTrash(s) ==
    [i \in 1..Len(s) |-> IF s[i] \in AsciiLetters \cup {"-"} THEN s[i] ELSE " "]

\* name.replace("-", " ")
ReplaceHyphen(s) == [i \in 1..Len(s) |-> IF s[i] = "-" THEN " " ELSE s[i]]

\* name.split(): the maximal runs of non-whitespace characters, in order
RECURSIVE SplitAcc(_, _)
SplitAcc(s, cur) ==
    IF s = <<>> THEN (IF cur = <<>> THEN <<>> ELSE <<cur>>)
    ELSE IF Head(s) = " "
         THEN (IF cur = <<>> THEN <<>> ELSE <<cur>>) \o SplitAcc(Tail(s), <<>>)
         ELSE SplitAcc(Tail(s), Append(cur, Head(s)))

Split(s) == SplitAcc(s, <<>>)

\* set(words)
ToSet(ws) == {ws[i] : i \in 1..Len(ws)}

----------------------------------------------------------------------------
(* Iteration order of a set of str.  CPython iterates a set in hash-table  *)
(* order; str hashes are salted per process (hash randomisation), so the   *)
(* order is fixed within one process and differs between processes.  A     *)
(* seed is a ranking of the letters; the set is iterated in the            *)
(* lexicographic order that ranking induces.                               *)

Seeds ==
    {p \in [1..Cardinality(LowerLetters) -> LowerLetters] :
        \A i, j \in DOMAIN p : p[i] = p[j] => i = j}

Rank(c, seed) == CHOOSE i \in DOMAIN seed : seed[i] = c

RECURSIVE HashBefore(_, _, _)
HashBefore(x, y, seed) ==
    IF x = <<>> THEN y # <<>>
    ELSE IF y = <<>> THEN FALSE
    ELSE IF Head(x) = Head(y) THEN HashBefore(Tail(x), Tail(y), seed)
    ELSE Rank(Head(x), seed) < Rank(Head(y), seed)

RECURSIVE SetIter(_, _)
SetIter(S, seed) ==
    IF S = {} THEN <<>>
    ELSE LET first == CHOOSE x \in S : \A y \in S \ {x} : HashBefore(x, y, seed)
         IN  <<first>> \o SetIter(S \ {first}, seed)

----------------------------------------------------------------------------
(* sorted(..., key=len, reverse=True) and the slice.                       *)

\* insert w behind every element that sorts before it or ties with it
RECURSIVE InsertAsc(_, _)
InsertAsc(sorted, w) ==
    IF sorted = <<>> THEN <<w>>
    ELSE IF Len(Head(sorted)) <= Len(w)
         THEN <<Head(sorted)>> \o InsertAsc(Tail(sorted), w)
         ELSE <<w>> \o sorted

RECURSIVE InsertDesc(_, _)
InsertDesc(sorted, w) ==
    IF sorted = <<>> THEN <<w>>
    ELSE IF Len(Head(sorted)) >= Len(w)
         THEN <<Head(sorted)>> \o InsertDesc(Tail(sorted), w)
         ELSE <<w>> \o sorted

RECURSIVE SortedByLenAsc(_)
SortedByLenAsc(ws) ==
    IF ws = <<>> THEN <<>>
    ELSE InsertAsc(SortedByLenAsc(SubSeq(ws, 1, Len(ws) - 1)), ws[Len(ws)])

\* sorted(ws, key=len, reverse=True): stable, longest first
RECURSIVE SortedByLenDesc(_)
SortedByLenDesc(ws) ==
    IF ws = <<>> THEN <<>>
    ELSE InsertDesc(SortedByLenDesc(SubSeq(ws, 1, Len(ws) - 1)), ws[Len(ws)])

\* the 5 of words[:5]
SlugWords == 5

\* words[:n]
Take(ws, n) == SubSeq(ws, 1, IF Len(ws) < n THEN Len(ws) ELSE n)

\* sep.join(ws)
RECURSIVE Join(_, _)
Join(sep, ws) ==
    IF ws = <<>> THEN <<>>
    ELSE IF Len(ws) = 1 THEN ws[1]
    ELSE ws[1] \o sep \o Join(sep, Tail(ws))

\* get_slug_from_name as evaluated in a process whose hash seed is seed
SlugInRun(name, seed) ==
    LET n1 == Lower(name)
        n2 == SubSep(n1)
        n3 == SubTrash(n2)
        n4 == ReplaceHyphen(n3)
        words == SortedByLenDesc(SetIter(ToSet(Split(n4)), seed))
    IN  Join(<<"-">>, Take(words, SlugWords))

get_slug_from_name(name) == SlugInRun(name, hashseed)

----------------------------------------------------------------------------
(* Titles handed to get_slug_from_name.                                    *)

TitleChars == {"a", "b", "A", "7", ".", "-", "_", " ", "sz"}

RECURSIVE SeqsUpTo(_, _)
SeqsUpTo(S, n) ==
    IF n = 0 THEN {<<>>}
    ELSE LET shorter == SeqsUpTo(S, n - 1)
         IN  shorter \cup {Append(s, c) : s \in {t \in shorter : Len(t) = n - 1}, c \in S}

FreeTitles == SeqsUpTo(TitleChars, MaxTitleLen)

\* the i-th vocabulary word: a, b, ab, ba, aba, bab, abab, ...
Word(i) ==
    [k \in 1..((i + 1) \div 2) |->
        IF (k + i) % 2 = 0 THEN "a" ELSE "b"]

TitleSeps == {<<" ">>, <<".">>, <<"-">>, <<"_">>, SEP_RE, <<"7", ".">>}

\* the words numbered in S, ascending or descending, joined by sep
RECURSIVE WordList(_, _, _)
WordList(S, sep, ascending) ==
    IF S = {} THEN <<>>
    ELSE LET i == IF ascending
                  THEN CHOOSE x \in S : \A y \in S : x <= y
                  ELSE CHOOSE x \in S : \A y \in S : x >= y
         IN  IF S = {i} THEN Word(i)
             ELSE Word(i) \o sep \o WordList(S \ {i}, sep, ascending)

WordTitles ==
    {WordList(S, sep, asc) :
        S \in SUBSET (1..VocabSize), sep \in TitleSeps, asc \in BOOLEAN}

Titles == FreeTitles \cup WordTitles

----------------------------------------------------------------------------
(* int <-> str.                                                            *)

DigitChar(d) ==
    CASE d = 0 -> "0" [] d = 1 -> "1" [] d = 2 -> "2" [] d = 3 -> "3"
      [] d = 4 -> "4" [] d = 5 -> "5" [] d = 6 -> "6" [] d = 7 -> "7"
      [] d = 8 -> "8" [] d = 9 -> "9"

DigitVal(c) == CHOOSE d \in 0..9 : DigitChar(d) = c

\* str(n) of a non-negative int, as the f-string formats it
RECURSIVE Str(_)
Str(n) == IF n < 10 THEN <<DigitChar(n)>> ELSE Append(Str(n \div 10), DigitChar(n % 10))

\* int(s) of a string of decimal digits
RECURSIVE Int_(_)
Int_(s) ==
    IF s = <<>> THEN 0
    ELSE 10 * Int_(SubSeq(s, 1, Len(s) - 1)) + DigitVal(s[Len(s)])

----------------------------------------------------------------------------
(* Issue.branch and IssueBranch.issue_number.                              *)

\* the name as f"{self.number}{sep}{slug}" would build it
BranchKeepsSlug(number, slug_, sep) == Str(number) \o sep \o slug_

\* Issue.branch: f"{self.number}{sep and sep + slug}"; `sep and x` is sep
\* itself when sep is empty, x otherwise
Branch(number, slug_, sep) ==
    Str(number) \o (IF sep = <<>> THEN sep ELSE sep \o slug_)

\* length of the longest prefix of digits
RECURSIVE DigitPrefixLen(_)
DigitPrefixLen(s) ==
    IF s = <<>> \/ Head(s) \notin Digits THEN 0 ELSE 1 + DigitPrefixLen(Tail(s))

NoMatch == [matched |-> FALSE, issue_number |-> <<>>, slug |-> <<>>]

\* the lengths \d{4,} can take so that .+ matches the rest: the rest is not
\* empty and holds no line feed ("." matches anything but a line feed)
MatchLens(name) ==
    {k \in 4..DigitPrefixLen(name) :
        /\ k < Len(name)
        /\ \A i \in (k + 1)..Len(name) : name[i] # "nl"}

\* ISSUE_BRANCH_RE.fullmatch(name), (?P<issue_number>\d{4,})(?P<slug>.+):
\* \d{4,} is greedy and gives digits back until the rest matches
FullMatch(name) ==
    IF MatchLens(name) = {} THEN NoMatch
    ELSE LET k == CHOOSE x \in MatchLens(name) : \A y \in MatchLens(name) : y <= x
         IN  [matched |-> TRUE,
              issue_number |-> SubSeq(name, 1, k),
              slug |-> SubSeq(name, k + 1, Len(name))]

\* the values of an int | None
None == [absent |-> TRUE, value |-> 0]
Some(n) == [absent |-> FALSE, value |-> n]

\* IssueBranch.issue_number
issue_number(name) ==
    LET match == FullMatch(name)
    IN  IF ~match.matched THEN None
        ELSE IF match.issue_number # <<>> THEN Some(Int_(match.issue_number))
        ELSE None

----------------------------------------------------------------------------
(* Remote, the URL builder, Issue.url and Issue.fetch_name.                *)

\* Upstream(owner, repo) and Origin(owner, repo); site defaults to github.com
Upstream(owner, repo) ==
    [owner |-> owner, repo |-> repo, site |-> "github.com", name |-> "upstream"]
Origin(owner, repo) ==
    [owner |-> owner, repo |-> repo, site |-> "github.com", name |-> "origin"]

\* Remote.https
https(remote, end_slash) ==
    <<"https://", remote.site, "/", remote.owner, "/", remote.repo>>
        \o (IF end_slash THEN <<"/">> ELSE <<>>)

\* get_issue_url
get_issue_url(remote, number) ==
    https(remote, FALSE) \o <<"/issues/">> \o Str(number)

\* what client.rest.issues.get(owner, repo, number).json() can be: a JSON
\* object with or without a "title" member (a string, the empty string or
\* null), or a JSON value that is no object; or the request fails
PyNone == "<None>"
TitleValues == {"Fix login page", "", PyNone}
Responses ==
    {[kind |-> "object", keys |-> {"title", "body"}, title |-> t] : t \in TitleValues}
    \cup {[kind |-> "object", keys |-> {"title"}, title |-> t] : t \in TitleValues}
    \cup {[kind |-> "object", keys |-> {}, title |-> PyNone],
          [kind |-> "object", keys |-> {"message"}, title |-> PyNone],
          [kind |-> "array", keys |-> {}, title |-> PyNone],
          [kind |-> "RequestFailed", keys |-> {}, title |-> PyNone]}

\* the mapping pattern {"title": title} of get_issue_name's match statement
MatchesTitle(response) == response.kind = "object" /\ "title" \in response.keys

\* get_issue_name: the outcome of the call for a response
get_issue_name(client, remote, number, response) ==
    IF response.kind = "RequestFailed"
    THEN [outcome |-> "RequestFailed", value |-> PyNone, message |-> <<>>]
    ELSE IF MatchesTitle(response)
    THEN [outcome |-> "return", value |-> response.title, message |-> <<>>]
    ELSE [outcome |-> "ValueError", value |-> PyNone,
          message |-> <<"invalid issue number ">> \o Str(number)]

BranchIdle ==
    /\ brInput = [kind |-> "none", number |-> 0, slug |-> <<>>, sep |-> <<>>,
                  name |-> <<>>]
    /\ brPc = "start"
    /\ brName = <<>>
    /\ brParsed = None

SlugIdle ==
    /\ hashseed = CHOOSE seed \in Seeds : TRUE
    /\ title = <<>>
    /\ slug = <<>>
    /\ slugCalled = FALSE

NoUrl == [cached |-> FALSE, value |-> <<>>]

FieldNumbers == {7, 1234}
Remotes == {Upstream("python", "cpython"), Origin("me", "cpython")}

NoFetch ==
    [called |-> FALSE, client |-> "none", number |-> 0,
     response |-> [kind |-> "none", keys |-> {}, title |-> PyNone],
     outcome |-> "none", value |-> PyNone, message |-> <<>>]

IssueIdle ==
    /\ issue = [number |-> 0, remote |-> Upstream("", "")]
    /\ urlCache = NoUrl
    /\ urlEvals = 0
    /\ urlReads = <<>>
    /\ fetch = NoFetch

\* Issue(number, remote): nothing cached, nothing fetched
IssueInit ==
    /\ issue \in [number : FieldNumbers, remote : Remotes]
    /\ urlCache = NoUrl
    /\ urlEvals = 0
    /\ urlReads = <<>>
    /\ fetch = NoFetch
    /\ SlugIdle
    /\ BranchIdle

\* a read of issue.url were url a plain property: evaluated at every read
ReadUrlUncached ==
    /\ Len(urlReads) < MaxReads
    /\ urlEvals' = urlEvals + 1
    /\ urlReads' = Append(urlReads, get_issue_url(issue.remote, issue.number))
    /\ UNCHANGED <<issue, urlCache, fetch, slugVars, branchVars>>

\* a read of issue.url: cached_property evaluates the method when the
\* instance's __dict__ has no "url" and stores the value there
ReadUrl ==
    /\ Len(urlReads) < MaxReads
    /\ IF urlCache.cached
       THEN /\ urlReads' = Append(urlReads, urlCache.value)
            /\ UNCHANGED <<urlCache, urlEvals>>
       ELSE LET url == get_issue_url(issue.remote, issue.number)
            IN  /\ urlCache' = [cached |-> TRUE, value |-> url]
                /\ urlEvals' = urlEvals + 1
                /\ urlReads' = Append(urlReads, url)
    /\ UNCHANGED <<issue, fetch, slugVars, branchVars>>

\* issue.number = n (the dataclass is not frozen)
SetNumber ==
    \E n \in FieldNumbers :
        /\ n # issue.number
        /\ issue' = [issue EXCEPT !.number = n]
        /\ UNCHANGED <<urlCache, urlEvals, urlReads, fetch, slugVars, branchVars>>

\* issue.remote = r
SetRemote ==
    \E r \in Remotes :
        /\ r # issue.remote
        /\ issue' = [issue EXCEPT !.remote = r]
        /\ UNCHANGED <<urlCache, urlEvals, urlReads, fetch, slugVars, branchVars>>

\* issue.fetch_name(client): the given client, or the ambient one when None
FetchName ==
    \E given \in BOOLEAN, response \in Responses :
        LET client == IF given THEN "argument" ELSE "context"
            res == get_issue_name(client, issue.remote, issue.number, response)
        IN  /\ fetch' = [called |-> TRUE, client |-> client,
                         number |-> issue.number, response |-> response,
                         outcome |-> res.outcome, value |-> res.value,
                         message |-> res.message]
            /\ UNCHANGED <<issue, urlCache, urlEvals, urlReads, slugVars, branchVars>>

IssueNext == ReadUrl \/ SetNumber \/ SetRemote \/ FetchName

IssueSpec == IssueInit /\ [][IssueNext]_vars

----------------------------------------------------------------------------
(* Branch specification: an IssueBranch is made by Issue.branch or         *)
(* constructed from a discovered branch name; its issue_number is read.    *)

IssueNumbers == {7, 42, 999, 1000, 1234, 12345}
BranchSlugChars == {"a", "-", "5", "nl"}
BranchSeps == {<<"/">>, <<"-">>, <<"_">>, <<>>}
NameChars == {"1", "2", "/", "a", "nl"}

BranchInputs ==
    {[kind |-> "issue", number |-> n, slug |-> s, sep |-> p, name |-> <<>>] :
        n \in IssueNumbers, s \in SeqsUpTo(BranchSlugChars, MaxSlugLen),
        p \in BranchSeps}
    \cup
    {[kind |-> "name", number |-> 0, slug |-> <<>>, sep |-> <<>>, name |-> nm] :
        nm \in SeqsUpTo(NameChars, MaxNameLen)}

BranchInit ==
    /\ brInput \in BranchInputs
    /\ brPc = "start"
    /\ brName = <<>>
    /\ brParsed = None
    /\ SlugIdle
    /\ IssueIdle

\* Issue(number, remote).branch(slug, sep=sep)
IssueBranchOf ==
    /\ brPc = "start"
    /\ brInput.kind = "issue"
    /\ brName' = Branch(brInput.number, brInput.slug, brInput.sep)
    /\ brPc' = "branch"
    /\ UNCHANGED <<brInput, brParsed, slugVars, issueVars>>

\* IssueBranch(name, upstream)
IssueBranchFromName ==
    /\ brPc = "start"
    /\ brInput.kind = "name"
    /\ brName' = brInput.name
    /\ brPc' = "branch"
    /\ UNCHANGED <<brInput, brParsed, slugVars, issueVars>>

\* branch.issue_number
ReadIssueNumber ==
    /\ brPc = "branch"
    /\ brParsed' = issue_number(brName)
    /\ brPc' = "read"
    /\ UNCHANGED <<brInput, brName, slugVars, issueVars>>

BranchNext == IssueBranchOf \/ IssueBranchFromName \/ ReadIssueNumber

BranchSpec == BranchInit /\ [][BranchNext]_vars

----------------------------------------------------------------------------
(* Slug specification: a process (one hash seed) is handed a title and     *)
(* calls get_slug_from_name on it.                                         *)

SlugInit ==
    /\ hashseed \in Seeds
    /\ title \in Titles
    /\ slug = <<>>
    /\ slugCalled = FALSE
    /\ BranchIdle
    /\ IssueIdle

GetSlugFromName ==
    /\ ~slugCalled
    /\ slug' = get_slug_from_name(title)
    /\ slugCalled' = TRUE
    /\ UNCHANGED <<hashseed, title, branchVars, issueVars>>

SlugNext == GetSlugFromName

SlugSpec == SlugInit /\ [][SlugNext]_vars

----------------------------------------------------------------------------
(* Vocabulary of the slug claims, stated on the title and the returned     *)
(* slug and not through the normaliser's own steps.                        *)

\* s cut at every hyphen, empty pieces kept; no piece at all for the empty s
RECURSIVE HyphenAcc(_, _)
HyphenAcc(s, cur) ==
    IF s = <<>> THEN <<cur>>
    ELSE IF Head(s) = "-"
         THEN <<cur>> \o HyphenAcc(Tail(s), <<>>)
         ELSE HyphenAcc(Tail(s), Append(cur, Head(s)))

HyphenTokens(s) == IF s = <<>> THEN <<>> ELSE HyphenAcc(s, <<>>)

\* the words of a title: its maximal runs of ASCII letters, lower-cased
WordsOf(t) ==
    {[k \in 1..(j - i + 1) |-> LowerChar(t[i + k - 1])] :
        <<i, j>> \in {<<i, j>> \in (1..Len(t)) \X (1..Len(t)) :
            /\ i <= j
            /\ \A k \in i..j : t[k] \in AsciiLetters
            /\ (i = 1 \/ t[i - 1] \notin AsciiLetters)
            /\ (j = Len(t) \/ t[j + 1] \notin AsciiLetters)}}

Min(a, b) == IF a < b THEN a ELSE b

IsAscii(t) == \A i \in 1..Len(t) : t[i] \in AsciiChars

Contains(t, p) == \E i \in 1..Len(t) : StartsWith(SubSeq(t, i, Len(t)), p)

\* t with its i-th character replaced by the run r
ReplaceAt(t, i, r) == SubSeq(t, 1, i - 1) \o r \o SubSeq(t, i + 1, Len(t))

\* one separator, a run of two, or the literal sequence of SEP_RE
SepRuns ==
    {<<c>> : c \in SepChars} \cup {<<c, d>> : c \in SepChars, d \in SepChars}
        \cup {SEP_RE}

----------------------------------------------------------------------------
(* C4: every slug is lower-case, made of alphabetic tokens joined by       *)
(* single hyphens (no digit, no leading, trailing or doubled hyphen) and   *)
(* has at most 5 tokens.                                                   *)
C4_SlugShape ==
    slugCalled =>
        /\ \A i \in 1..Len(slug) : slug[i] \in LowerLetters \cup {"-"}
        /\ \A i \in 1..Len(HyphenTokens(slug)) : HyphenTokens(slug)[i] # <<>>
        /\ Len(HyphenTokens(slug)) <= 5

\* a title with digits, periods and more than five words
C4_Witness ==
    /\ slugCalled
    /\ \E i \in 1..Len(title) : title[i] = "7"
    /\ \E i \in 1..Len(title) : title[i] = "."
    /\ Cardinality(WordsOf(title)) > 5
    /\ Len(HyphenTokens(slug)) = 5

(* C5: get_slug_from_name is deterministic: the slug a process returns for *)
(* a title is the slug every other run of the program returns for it.      *)
C5_Deterministic ==
    slugCalled => \A seed \in Seeds : SlugInRun(title, seed) = slug

(* C8 as claimed: for every title T, slug(T) = slug(T.upper()).            *)
C8_CaseInsensitive ==
    slugCalled => get_slug_from_name(Upper(title)) = slug

(* C8 as amended: for every title T of ASCII characters,                   *)
(* slug(T) = slug(T.upper()).                                              *)
C8_CaseInsensitiveAscii ==
    (slugCalled /\ IsAscii(title)) => get_slug_from_name(Upper(title)) = slug

\* an ASCII title of mixed case with two words
C8_Witness ==
    /\ slugCalled
    /\ IsAscii(title)
    /\ \E i \in 1..Len(title) : title[i] \in LowerLetters
    /\ \E i \in 1..Len(title) : title[i] \in UpperLetters
    /\ Len(HyphenTokens(slug)) = 2

(* C9: for a title with k distinct words the slug holds exactly min(5, k)  *)
(* pairwise distinct words of the title, longest first (non-increasing     *)
(* length), no word left out is longer than a word kept, and a title       *)
(* without words (empty, whitespace only) gives the empty slug.            *)
C9_LongestWords ==
    slugCalled =>
        LET kept == HyphenTokens(slug)
            words == WordsOf(title)
        IN  /\ Len(kept) = Min(5, Cardinality(words))
            /\ \A i \in 1..Len(kept) : kept[i] \in words
            /\ \A i, j \in 1..Len(kept) : kept[i] = kept[j] => i = j
            /\ \A i, j \in 1..Len(kept) : i < j => Len(kept[i]) >= Len(kept[j])
            /\ \A w \in words \ ToSet(kept) :
                   \A i \in 1..Len(kept) : Len(w) <= Len(kept[i])
            /\ (\A i \in 1..Len(title) : title[i] = " ") => slug = <<>>

\* seven distinct words, of which two are left out
C9_Witness ==
    /\ slugCalled
    /\ Cardinality(WordsOf(title)) = 7
    /\ Len(HyphenTokens(slug)) = 5
    /\ \E w \in WordsOf(title) \ ToSet(HyphenTokens(slug)) : Len(w) = 1

(* C10: period, hyphen, underscore and space are the same separator:       *)
(* replacing any occurrence of one of them in the title by another, by a   *)
(* run of two of them or by the sequence ". -_" leaves the slug unchanged. *)
C10_SeparatorsAlike ==
    slugCalled =>
        \A i \in 1..Len(title) :
            title[i] \in SepChars =>
                \A r \in SepRuns :
                    get_slug_from_name(ReplaceAt(title, i, r)) = slug

\* a title whose words are separated by the literal sequence of SEP_RE
C10_Witness ==
    /\ slugCalled
    /\ Contains(title, SEP_RE)
    /\ Len(HyphenTokens(slug)) >= 2

(* C1: a branch made by Issue(n, R).branch(s) with the default separator   *)
(* for n >= 1000 parses back to n, whatever the slug s.                   *)
C1_RoundTrip ==
    (brPc = "read" /\ brInput.kind = "issue" /\ brInput.number >= 1000
        /\ brInput.sep = <<"/">>)
    => brParsed = Some(brInput.number)

C3_IssueNumber ==
    brPc = "read" =>
        LET applies == Len(brName) >= 5 /\ DigitPrefixLen(brName) >= 4
        IN  /\ applies =>
                brParsed = Some(Int_(SubSeq(brName, 1, DigitPrefixLen(brName))))
            /\ ~applies => brParsed = None
            /\ (brInput.kind = "issue" /\ brInput.number < 1000) => brParsed = None

(* C6: fetch_name raises the invalid-issue-number error, carrying the      *)
(* number, when the response has no "title"; it never returns None or an   *)
(* empty string; what it returns is the title of the response.             *)
C6_FetchName ==
    fetch.called =>
        /\ (fetch.response.kind # "RequestFailed" /\ ~MatchesTitle(fetch.response))
               => /\ fetch.outcome = "ValueError"
                  /\ fetch.message = <<"invalid issue number ">> \o Str(fetch.number)
        /\ fetch.outcome = "return" => fetch.value \notin {PyNone, ""}
        /\ fetch.outcome = "return"
               => MatchesTitle(fetch.response) /\ fetch.value = fetch.response.title

(* C7: over any sequence of reads of issue.url, interleaved with           *)
(* assignments to number and remote and with fetch_name calls,             *)
(* get_issue_url is evaluated at most once and every read returns what the *)
(* first read returned.                                                    *)
C7_UrlMemoized ==
    /\ urlEvals <= 1
    /\ \A i \in 1..Len(urlReads) : urlReads[i] = urlReads[1]

\* three reads, the fields reassigned after the first: the cached URL is no
\* longer the URL of the fields
C7_Witness ==
    /\ Len(urlReads) = 3
    /\ urlEvals = 1
    /\ urlReads[3] # get_issue_url(issue.remote, issue.number)
    /\ fetch.called

====
